---- MODULE Spec2Model ----
(***************************************************************************)
(* Model of channel.go: the channel discovery loop (newChannel), the       *)
(* virtio-port resolver (findVirtualSerialPath), the AF_VSOCK probe        *)
(* (isAFVSockSupported), the serial channel's setup, wait, listen and     *)
(* teardown, and the vsock channel's methods.                              *)
(***************************************************************************)
EXTENDS Integers, Sequences, FiniteSets, TLC

\* ------------------------------------------------------------------ bounds
\* Largest channelExistMaxTries explored (the variable is 200 in the source;
\* it is a package variable and the loop is uniform in it).
MaxTriesBound == 3
\* Number of further environment snapshots observed after newChannel returned.
LookAhead == 1
\* Largest number of entries Readdirnames returns.
MaxPorts == 3
\* Largest number of results EpollWait delivers to one wait() call.
MaxEvents == 3
\* Largest number of method calls made on one vSockChannel.
MaxVSockCalls == 3
\* Largest number of files setup() opens on one serialChannel.
MaxOpens == 1
\* Largest number of sessions listen() creates on one serialChannel.
MaxSessions == 1
\* Largest number of teardown() calls on one serialChannel.
MaxTeardowns == 2

\* ------------------------------------------------------------ error values
Nil == "nil"
ErrNotFound == "codes.NotFound: Could not find virtio port"
ErrNeither == "Neither vsocks nor serial ports were found"
\* an error value: its message and the errors it wraps
NoError == [msg |-> Nil, wrapped |-> <<>>]
ErrIOClosed == "serial port IO closed"
ErrIOFailure == "serial port IO failure"
ErrTimeout == "timeout waiting for yamux channel to close"
\* what (*os.File).Close() returns for a nil file and for a closed one
ErrInvalid == "invalid argument"
ErrClosed == "file already closed"

\* ------------------------------------------------------------------ state
VARIABLES
    \* newChannel
    channelExistMaxTries,   \* package variable, line 27
    channelExistWaitTime,   \* package variable, line 28 (milliseconds)
    i,                      \* loop counter of newChannel
    pc,                     \* position of newChannel
    serialErr, serialPath, vsockErr, vSockSupported,   \* locals, lines 52-55
    chan,                   \* channel returned by newChannel ("nil" while none)
    chanErr,                \* error returned by newChannel
    agentLog,               \* errors written to agentLog by newChannel
    env,                    \* the filesystem/kernel as seen in this iteration
    envHist,                \* history: env of iteration k at envHist[k]
    calls,                  \* history: <<iteration, call>> in call order
    elapsed,                \* history: total time slept (milliseconds)
    \* findVirtualSerialPath on its own
    topo, serialName, res,
    \* serialChannel
    serialConn,             \* c.serialConn: nil or a file setup() opened
    wpc,                    \* position of the serialChannel method being run
    waitRet,                \* value returned by wait() ("none" while running)
    setupRet,               \* value returned by setup()
    evlog,                  \* history: results EpollWait delivered to wait(),
                            \* each with the descriptor wait() registered
    files,                  \* the os.File objects setup() has opened, in
                            \* order: descriptor, whether it is closed, and
                            \* (history) the Close() calls teardown() made
    waitCh,                 \* c.waitCh: 0 (nil) or the session whose
                            \* CloseChan() it is
    sessions,               \* the yamux sessions listen() has created
    listenRet,              \* error returned by listen()
    teardownRet,            \* value returned by teardown() ("none" while
                            \* it runs)
    tpc,                    \* where teardown() is: "idle" or "select"
    timerFired,             \* whether the timer of teardown() has expired
    td,                     \* history: how the last teardown() returned
    teardowns,              \* history: number of teardown() calls
    nilCloses,              \* history: number of Close() calls teardown()
                            \* made on a nil file
    readyFile,              \* history: the file wait() last returned nil on
    \* vSockChannel
    vsockObj,               \* the vSockChannel value the methods are called on
    vlog                    \* history: the calls made on it and their results

dvars == <<channelExistMaxTries, channelExistWaitTime, i, pc, serialErr,
           serialPath, vsockErr, vSockSupported, chan, chanErr, agentLog,
           env, envHist, calls, elapsed>>
rvars == <<topo, serialName, res>>
svars == <<serialConn, wpc, waitRet, setupRet, evlog, files, waitCh, sessions,
           listenRet, teardownRet, tpc, timerFired, td, teardowns, nilCloses,
           readyFile>>
\* what only listen() and teardown() change
lvars == <<waitCh, sessions, listenRet, teardownRet, tpc, timerFired, td,
           teardowns, nilCloses, readyFile>>
vvars == <<vsockObj, vlog>>
vars == <<dvars, rvars, svars, vvars>>

\* --------------------------------------------------------- path constants
devRootPath == "/dev"
\* the agent's serial channel name, as a sequence of characters
serialChannelName == <<"a", "b">>

\* filepath.Join of a directory and one clean path element
Join(dir, elem) == <<dir, elem>>
NoPath == <<>>

\* ------------------------------------------------- findVirtualSerialPath
\* port k stands for the directory entry vport0p<k>
PortIds == 1..MaxPorts

\* mutant: strings.HasPrefix in place of strings.Contains
Contains_PrefixOnly(s, sub) ==
    /\ Len(sub) <= Len(s)
    /\ \A j \in 1..Len(sub) : s[j] = sub[j]

\* strings.Contains(s, sub) on sequences of characters
Contains(s, sub) ==
    \E k \in 0..(Len(s) - Len(sub)) :
        \A j \in 1..Len(sub) : s[k + j] = sub[j]

\* ioutil.ReadFile of a port's name file: its content, or the error
ReadFile(port) ==
    IF port.err = Nil THEN [content |-> port.content, err |-> Nil]
                      ELSE [content |-> <<>>, err |-> port.err]

\* mutant: every read error taken for a missing file
IsNotExist_Always(err) == TRUE

\* mutant: a missing file not recognised
IsNotExist_Never(err) == FALSE

\* os.IsNotExist
IsNotExist(err) == err = "ENOENT"

\* the loop of lines 263-277 from index k on; reads = ports whose name file
\* was read so far
RECURSIVE ScanPorts(_, _, _, _)
ScanPorts(ports, serialName_, k, reads) ==
    IF k > Len(ports)
    THEN [path |-> NoPath, err |-> ErrNotFound, reads |-> reads]
    ELSE LET port == ports[k]
             r == ReadFile(port)
             reads2 == Append(reads, port.id)
         IN IF r.err # Nil
            THEN IF IsNotExist(r.err)
                 THEN ScanPorts(ports, serialName_, k + 1, reads2)
                 ELSE [path |-> NoPath, err |-> r.err, reads |-> reads2]
            ELSE IF Contains(r.content, serialName_)
                 THEN [path |-> Join(devRootPath, port.id), err |-> Nil,
                       reads |-> reads2]
                 ELSE ScanPorts(ports, serialName_, k + 1, reads2)

findVirtualSerialPath(t, serialName_) ==
    IF t.openErr # Nil
    THEN [path |-> NoPath, err |-> t.openErr, reads |-> <<>>]
    ELSE IF t.listErr # Nil
    THEN [path |-> NoPath, err |-> t.listErr, reads |-> <<>>]
    ELSE ScanPorts(t.ports, serialName_, 1, <<>>)

\* -------------------------------------------------- isAFVSockSupported
\* mutant: the EAFNOSUPPORT test of line 236 left out
isAFVSockSupported_UnsupportedIsError(sock) ==
    IF sock.socketErr # Nil
    THEN [supported |-> FALSE, err |-> sock.socketErr]
    ELSE IF sock.closeErr # Nil
         THEN [supported |-> TRUE, err |-> sock.closeErr]
         ELSE [supported |-> TRUE, err |-> Nil]

\* sock = the results of unix.Socket and unix.Close: [socketErr, closeErr]
isAFVSockSupported(sock) ==
    IF sock.socketErr # Nil
    THEN IF sock.socketErr = "EAFNOSUPPORT"
         THEN [supported |-> FALSE, err |-> Nil]
         ELSE [supported |-> FALSE, err |-> sock.socketErr]
    ELSE IF sock.closeErr # Nil
         THEN [supported |-> TRUE, err |-> sock.closeErr]
         ELSE [supported |-> TRUE, err |-> Nil]

\* ------------------------------------------------------ input domains
Contents == {<<>>, <<"a">>, <<"b", "a">>, <<"a", "b">>, <<"b", "a", "b", "a">>}
SerialNames == {<<"a">>, <<"a", "b">>}
ReadErrors == {"ENOENT", "EIO", "EACCES"}
NameFiles == [err : {Nil}, content : Contents]
                 \cup [err : ReadErrors, content : {<<>>}]
Injective(f) == \A x, y \in DOMAIN f : f[x] = f[y] => x = y
\* the listing whose k-th entry is port p[k] with name file f[k]
PortSeq(p, f) ==
    [k \in DOMAIN p |-> [id |-> p[k], err |-> f[k].err, content |-> f[k].content]]
\* a root that cannot be opened or cannot be listed
BrokenRoots ==
    [openErr : {"ENOENT", "EACCES"}, listErr : {Nil}, ports : {<<>>}]
        \cup [openErr : {Nil}, listErr : {"EIO"}, ports : {<<>>}]

File(id, err, content) == [id |-> id, err |-> err, content |-> content]
\* the topologies newChannel is run against
DiscoverTopos ==
    { [openErr |-> "ENOENT", listErr |-> Nil, ports |-> <<>>],
      [openErr |-> Nil, listErr |-> Nil,
       ports |-> <<File(1, "ENOENT", <<>>), File(2, Nil, <<"b", "a">>)>>],
      [openErr |-> Nil, listErr |-> Nil,
       ports |-> <<File(2, "EIO", <<>>), File(1, Nil, <<"a", "b">>)>>],
      [openErr |-> Nil, listErr |-> Nil,
       ports |-> <<File(2, "ENOENT", <<>>), File(1, Nil, <<"b", "a", "b", "a">>)>>] }
SocketResults ==
    { [socketErr |-> Nil, closeErr |-> Nil],
      [socketErr |-> Nil, closeErr |-> "EIO"],
      [socketErr |-> "EAFNOSUPPORT", closeErr |-> Nil],
      [socketErr |-> "EMFILE", closeErr |-> Nil] }
\* without the vsock device nothing reads the socket results: one stands
\* for all
DiscoverEnvs ==
    [statErr : {Nil}, sock : SocketResults, topo : DiscoverTopos]
        \cup [statErr : {"ENOENT"},
              sock : {[socketErr |-> "EAFNOSUPPORT", closeErr |-> Nil]},
              topo : DiscoverTopos]
WaitTimes == {10, 50}

NoChannel == [kind |-> "nil", serialPath |-> NoPath]
vSockChannel == [kind |-> "vsock", serialPath |-> NoPath]
serialChannel(path) == [kind |-> "serial", serialPath |-> path]
Pending == [path |-> NoPath, err |-> "pending", reads |-> <<>>]

\* ------------------------------------------------------------ newChannel
InitDiscover ==
    /\ channelExistMaxTries \in 0..MaxTriesBound
    /\ channelExistWaitTime \in WaitTimes
    /\ i = 0
    /\ pc = "loop"
    /\ serialErr = Nil
    /\ serialPath = NoPath
    /\ vsockErr = Nil
    /\ vSockSupported = FALSE
    /\ chan = NoChannel
    /\ chanErr = NoError
    /\ agentLog = <<>>
    /\ env = [statErr |-> "ENOENT", sock |-> [socketErr |-> Nil, closeErr |-> Nil],
              topo |-> [openErr |-> "ENOENT", listErr |-> Nil, ports |-> <<>>]]
    /\ envHist = <<>>
    /\ calls = <<>>
    /\ elapsed = 0

IdleDiscover ==
    /\ channelExistMaxTries = 0
    /\ channelExistWaitTime = 50
    /\ i = 0
    /\ pc = "idle"
    /\ serialErr = Nil
    /\ serialPath = NoPath
    /\ vsockErr = Nil
    /\ vSockSupported = FALSE
    /\ chan = NoChannel
    /\ chanErr = NoError
    /\ agentLog = <<>>
    /\ env = [statErr |-> "ENOENT", sock |-> [socketErr |-> Nil, closeErr |-> Nil],
              topo |-> [openErr |-> "ENOENT", listErr |-> Nil, ports |-> <<>>]]
    /\ envHist = <<>>
    /\ calls = <<>>
    /\ elapsed = 0

\* mutant: the vsock path looked at in the first iteration only
AfterStat_FirstOnly(statErr) ==
    IF statErr = Nil /\ i = 0 THEN "probe" ELSE "resolve"

\* line 59: where the iteration goes after os.Stat(vSockDevPath)
AfterStat(statErr) == IF statErr = Nil THEN "probe" ELSE "resolve"

\* mutant: the loop condition of line 57 off by one
Stat_OffByOne ==
    /\ pc = "loop"
    /\ i <= channelExistMaxTries
    /\ \E e \in DiscoverEnvs :
          /\ env' = e
          /\ envHist' = Append(envHist, e)
          /\ pc' = AfterStat(e.statErr)
    /\ calls' = Append(calls, <<i, "Stat">>)
    /\ UNCHANGED <<channelExistMaxTries, channelExistWaitTime, i, serialErr,
                   serialPath, vsockErr, vSockSupported, chan, chanErr,
                   agentLog, elapsed>>

\* line 57 (loop condition true) and line 59: os.Stat(vSockDevPath)
Stat ==
    /\ pc = "loop"
    /\ i < channelExistMaxTries
    /\ \E e \in DiscoverEnvs :
          /\ env' = e
          /\ envHist' = Append(envHist, e)
          /\ pc' = AfterStat(e.statErr)
    /\ calls' = Append(calls, <<i, "Stat">>)
    /\ UNCHANGED <<channelExistMaxTries, channelExistWaitTime, i, serialErr,
                   serialPath, vsockErr, vSockSupported, chan, chanErr,
                   agentLog, elapsed>>

\* mutant: the error test of line 60 inverted
ProbeStep_ErrInverted(r) ==
    /\ vSockSupported' = r.supported
    /\ vsockErr' = r.err
    /\ IF r.supported /\ r.err # Nil
       THEN /\ chan' = vSockChannel
            /\ chanErr' = NoError
            /\ pc' = "done"
       ELSE /\ pc' = "resolve"
            /\ UNCHANGED <<chan, chanErr>>

\* mutant: the error test of line 60 left out
ProbeStep_ErrIgnored(r) ==
    /\ vSockSupported' = r.supported
    /\ vsockErr' = r.err
    /\ IF r.supported
       THEN /\ chan' = vSockChannel
            /\ chanErr' = NoError
            /\ pc' = "done"
       ELSE /\ pc' = "resolve"
            /\ UNCHANGED <<chan, chanErr>>

\* mutant: a nil probe error does not overwrite an earlier one
ProbeStep_KeepErr(r) ==
    /\ vSockSupported' = r.supported
    /\ vsockErr' = IF r.err = Nil THEN vsockErr ELSE r.err
    /\ IF r.supported /\ r.err = Nil
       THEN /\ chan' = vSockChannel
            /\ chanErr' = NoError
            /\ pc' = "done"
       ELSE /\ pc' = "resolve"
            /\ UNCHANGED <<chan, chanErr>>

\* lines 60-63: isAFVSockSupportedFunc()
ProbeStep(r) ==
    /\ vSockSupported' = r.supported
    /\ vsockErr' = r.err
    /\ IF r.supported /\ r.err = Nil
       THEN /\ chan' = vSockChannel
            /\ chanErr' = NoError
            /\ pc' = "done"
       ELSE /\ pc' = "resolve"
            /\ UNCHANGED <<chan, chanErr>>

Probe ==
    /\ pc = "probe"
    /\ ProbeStep(isAFVSockSupported(env.sock))
    /\ calls' = Append(calls, <<i, "Probe">>)
    /\ UNCHANGED <<channelExistMaxTries, channelExistWaitTime, i, serialErr,
                   serialPath, agentLog, env, envHist, elapsed>>

\* lines 67-71: findVirtualSerialPath(serialChannelName)
ResolveStep(r) ==
    /\ serialPath' = r.path
    /\ serialErr' = r.err
    /\ IF r.err = Nil
       THEN /\ chan' = serialChannel(r.path)
            /\ chanErr' = NoError
            /\ pc' = "done"
       ELSE /\ pc' = "sleep"
            /\ UNCHANGED <<chan, chanErr>>

Resolve ==
    /\ pc = "resolve"
    /\ ResolveStep(findVirtualSerialPath(env.topo, serialChannelName))
    /\ calls' = Append(calls, <<i, "Resolve">>)
    /\ UNCHANGED <<channelExistMaxTries, channelExistWaitTime, i, vsockErr,
                   vSockSupported, agentLog, env, envHist, elapsed>>

\* mutant: line 73 left out
Sleep_Missing ==
    /\ pc = "sleep"
    /\ i' = i + 1
    /\ pc' = "loop"
    /\ UNCHANGED <<channelExistMaxTries, channelExistWaitTime, serialErr,
                   serialPath, vsockErr, vSockSupported, chan, chanErr,
                   agentLog, env, envHist, calls, elapsed>>

\* mutant: no sleep after the last iteration
Sleep_NotAfterLast ==
    /\ pc = "sleep"
    /\ IF i + 1 < channelExistMaxTries
       THEN /\ elapsed' = elapsed + channelExistWaitTime
            /\ calls' = Append(calls, <<i, "Sleep">>)
       ELSE UNCHANGED <<elapsed, calls>>
    /\ i' = i + 1
    /\ pc' = "loop"
    /\ UNCHANGED <<channelExistMaxTries, channelExistWaitTime, serialErr,
                   serialPath, vsockErr, vSockSupported, chan, chanErr,
                   agentLog, env, envHist>>

\* line 73 and the loop increment of line 57
Sleep ==
    /\ pc = "sleep"
    /\ elapsed' = elapsed + channelExistWaitTime
    /\ i' = i + 1
    /\ pc' = "loop"
    /\ calls' = Append(calls, <<i, "Sleep">>)
    /\ UNCHANGED <<channelExistMaxTries, channelExistWaitTime, serialErr,
                   serialPath, vsockErr, vSockSupported, chan, chanErr,
                   agentLog, env, envHist>>

\* mutant: lines 80-82 left out
ExhaustLog_SerialOnly(sErr, vErr) ==
    IF sErr # Nil THEN <<[msg |-> "Serial port not found", err |-> sErr]>>
                  ELSE <<>>

\* lines 76-82: what newChannel logs once the loop is over
ExhaustLog(sErr, vErr) ==
    (IF sErr # Nil THEN <<[msg |-> "Serial port not found", err |-> sErr]>>
                   ELSE <<>>)
    \o (IF vErr # Nil THEN <<[msg |-> "VSock not found", err |-> vErr]>>
                      ELSE <<>>)

\* line 84: the error newChannel returns once the loop is over, built by
\* fmt.Errorf from a constant string
ExhaustError(sErr, vErr) == [msg |-> ErrNeither, wrapped |-> <<>>]

\* line 57 (loop condition false) and lines 76-84
Exhaust ==
    /\ pc = "loop"
    /\ i >= channelExistMaxTries
    /\ agentLog' = ExhaustLog(serialErr, vsockErr)
    /\ chan' = NoChannel
    /\ chanErr' = ExhaustError(serialErr, vsockErr)
    /\ pc' = "done"
    /\ UNCHANGED <<channelExistMaxTries, channelExistWaitTime, i, serialErr,
                   serialPath, vsockErr, vSockSupported, env, envHist, calls,
                   elapsed>>

\* the environment keeps changing after newChannel has returned
EnvTick ==
    /\ pc = "done"
    /\ chan # NoChannel
    /\ Len(envHist) < channelExistMaxTries
    /\ Len(envHist) < i + 1 + LookAhead
    /\ \E e \in DiscoverEnvs :
          /\ env' = e
          /\ envHist' = Append(envHist, e)
    /\ UNCHANGED <<channelExistMaxTries, channelExistWaitTime, i, pc, serialErr,
                   serialPath, vsockErr, vSockSupported, chan, chanErr,
                   agentLog, calls, elapsed>>

\* ------------------------------------- findVirtualSerialPath on its own
InitResolve ==
    /\ \/ topo \in BrokenRoots
       \/ \E n \in 0..MaxPorts :
             \E p \in [1..n -> PortIds], f \in [1..n -> NameFiles] :
                /\ Injective(p)
                /\ topo = [openErr |-> Nil, listErr |-> Nil,
                           ports |-> PortSeq(p, f)]
    /\ serialName \in SerialNames
    /\ res = Pending

IdleResolve ==
    /\ topo = [openErr |-> "ENOENT", listErr |-> Nil, ports |-> <<>>]
    /\ serialName = serialChannelName
    /\ res = Pending

ResolveCall ==
    /\ res = Pending
    /\ res' = findVirtualSerialPath(topo, serialName)
    /\ UNCHANGED <<topo, serialName>>

\* ------------------------------------------------------- serialChannel
\* c.serialConn is nil until setup() stores the file OpenFile returned
\* before any teardown() has returned
NoTeardown ==
    [branch |-> "never", notified |-> FALSE, fired |-> FALSE, file |-> 0,
     openAfter |-> FALSE, ret |-> "none"]
\* c.waitCh before listen() has stored a channel
NilChan == 0
\* id tells the files setup() opened apart (0 for nil)
NilFile == [isNil |-> TRUE, fd |-> -1, id |-> 0]
OpenedFile(fd, id) == [isNil |-> FALSE, fd |-> fd, id |-> id]
IsOpen(file) == ~file.isNil /\ ~files[file.id].closed
\* (*os.File).Fd(): ^uintptr(0) for a nil file and for a closed one
Fd(file) == IF IsOpen(file) THEN file.fd ELSE -1

\* descriptors os.OpenFile may return (0 when the process has no stdin)
SerialFds == {0, 3}
\* a descriptor that is not the serial port's
OtherFds == {7}
OpenErrors == {"ENOENT", "EBUSY"}
EpollFlags == {"EPOLLOUT", "EPOLLERR", "EPOLLHUP"}
\* one result of unix.EpollWait(epfd, events[:], -1) with len(events) = 1
EpollResults(fd) ==
    [err : {"EINTR"}, events : {<<>>}]
        \cup [err : {Nil}, events : {<<>>}]
        \cup {[err |-> Nil, events |-> <<[fd |-> f, events |-> fl]>>] :
                 f \in {fd} \cup OtherFds, fl \in SUBSET EpollFlags}

IdleSerial ==
    /\ serialConn = NilFile
    /\ wpc = "idle"
    /\ waitRet = "none"
    /\ setupRet = "none"
    /\ evlog = <<>>
    /\ files = <<>>
    /\ waitCh = NilChan
    /\ sessions = <<>>
    /\ listenRet = "none"
    /\ teardownRet = "none"
    /\ tpc = "idle"
    /\ timerFired = FALSE
    /\ td = NoTeardown
    /\ teardowns = 0
    /\ nilCloses = 0
    /\ readyFile = 0

InitSerial == IdleSerial

\* lines 117-127: open is the result of os.OpenFile
SetupStep(open) ==
    IF open.err # Nil
    THEN /\ setupRet' = open.err
         /\ UNCHANGED <<serialConn, files>>
    ELSE /\ serialConn' = OpenedFile(open.fd, Len(files) + 1)
         /\ files' = Append(files, [fd |-> open.fd, closed |-> FALSE,
                                     closeCalls |-> 0])
         /\ setupRet' = Nil

setup ==
    /\ wpc = "idle"
    /\ tpc = "idle"
    /\ \E open \in [err : OpenErrors, fd : {-1}] \cup [err : {Nil}, fd : SerialFds] :
          /\ open.err = Nil => Len(files) < MaxOpens
          /\ SetupStep(open)
    /\ listenRet' = "none"
    /\ teardownRet' = "none"
    /\ td' = NoTeardown
    /\ UNCHANGED <<wpc, waitRet, evlog, waitCh, sessions, tpc, timerFired,
                   teardowns, nilCloses, readyFile>>

\* lines 133-152: what wait() returns before its loop, "enter" when it
\* reaches the loop; createErr and ctlErr are the results of EpollCreate1
\* and EpollCtl
WaitPrologue(fd, createErr, ctlErr) ==
    IF fd = 0 THEN ErrIOClosed
    ELSE IF createErr # Nil THEN createErr
    ELSE IF ctlErr # Nil THEN ctlErr
    ELSE "enter"

\* EpollCtl(EPOLL_CTL_ADD) fails with EBADF on an invalid descriptor
CtlErrors(fd) == IF fd < 0 THEN {"EBADF"} ELSE {Nil, "EPERM"}

waitEnter ==
    /\ wpc = "idle"
    /\ \E createErr \in {Nil, "EMFILE"}, ctlErr \in CtlErrors(Fd(serialConn)) :
          LET r == WaitPrologue(Fd(serialConn), createErr, ctlErr)
          IN IF r = "enter"
             THEN /\ wpc' = "epollwait"
                  /\ waitRet' = "none"
             ELSE /\ wpc' = "idle"
                  /\ waitRet' = r
    /\ evlog' = <<>>
    /\ UNCHANGED <<serialConn, setupRet, files, lvars>>

\* mutant: a hangup taken for a failure
HandleEvent_HupFatal(ev, fd) ==
    IF ev.fd = fd
    THEN IF "EPOLLOUT" \in ev.events THEN Nil
         ELSE IF ev.events \cap {"EPOLLERR", "EPOLLHUP"} # {} THEN ErrIOFailure
         ELSE "continue"
    ELSE "continue"

\* lines 162-173: one delivered event; "continue" when the loop goes on
HandleEvent(ev, fd) ==
    IF ev.fd = fd
    THEN IF "EPOLLOUT" \in ev.events THEN Nil
         ELSE IF "EPOLLERR" \in ev.events THEN ErrIOFailure
         ELSE "continue"
    ELSE "continue"

\* lines 160-174: the events of one EpollWait, from index k on
RECURSIVE HandleEvents(_, _, _)
HandleEvents(evs, fd, k) ==
    IF k > Len(evs) THEN "continue"
    ELSE LET o == HandleEvent(evs[k], fd)
         IN IF o # "continue" THEN o ELSE HandleEvents(evs, fd, k + 1)

\* lines 155-174: one turn of the loop of wait(), r the result of EpollWait
WaitTurn(r, fd) ==
    IF r.err # Nil THEN r.err ELSE HandleEvents(r.events, fd, 1)

waitEpoll ==
    /\ wpc = "epollwait"
    /\ Len(evlog) < MaxEvents
    /\ \E r \in EpollResults(Fd(serialConn)) :
          /\ evlog' = Append(evlog, [reg |-> Fd(serialConn), err |-> r.err,
                                     events |-> r.events])
          /\ LET o == WaitTurn(r, Fd(serialConn))
             IN IF o = "continue"
                THEN UNCHANGED <<wpc, waitRet>>
                ELSE /\ wpc' = "idle"
                     /\ waitRet' = o
    /\ UNCHANGED <<serialConn, setupRet, files, lvars>>

\* ------------------------------------- serialChannel: listen, teardown
\* setupRet, waitRet, listenRet, teardownRet and td hold what the last call
\* returned: a call of another method resets them

\* lines 129-175 run to the return of wait(): what it may return on
\* descriptor fd, r being the result of the last EpollWait (the turns of
\* the loop before it change nothing)
WaitReturns(fd) ==
    { IF WaitPrologue(fd, createErr, ctlErr) = "enter"
      THEN WaitTurn(r, fd)
      ELSE WaitPrologue(fd, createErr, ctlErr) :
        createErr \in {Nil, "EMFILE"}, ctlErr \in CtlErrors(fd),
        r \in EpollResults(fd) } \ {"continue"}

waitCall ==
    /\ wpc = "idle"
    /\ tpc = "idle"
    /\ \E o \in WaitReturns(Fd(serialConn)) :
          /\ waitRet' = o
          /\ readyFile' = IF o = Nil THEN serialConn.id ELSE readyFile
    /\ setupRet' = "none"
    /\ listenRet' = "none"
    /\ teardownRet' = "none"
    /\ td' = NoTeardown
    /\ UNCHANGED <<serialConn, wpc, evlog, files, waitCh, sessions, tpc,
                   timerFired, teardowns, nilCloses>>

\* what yamux.Server(c.serialConn, config) may return
ServerErrors == {Nil, "yamux: invalid config"}

\* lines 208-214: err is the error of yamux.Server; the session is made
\* over whatever c.serialConn holds. ready (history) tells whether that was
\* an open file wait() had returned nil on
ListenStep(err) ==
    IF err # Nil
    THEN /\ listenRet' = err
         /\ UNCHANGED <<sessions, waitCh>>
    ELSE /\ sessions' = Append(sessions,
                               [conn |-> serialConn, shutdown |-> FALSE,
                                connClosed |-> FALSE,
                                ready |-> IsOpen(serialConn)
                                            /\ readyFile = serialConn.id])
         /\ waitCh' = Len(sessions) + 1
         /\ listenRet' = Nil

listen ==
    /\ wpc = "idle"
    /\ tpc = "idle"
    /\ \E err \in ServerErrors :
          /\ err = Nil => Len(sessions) < MaxSessions
          /\ ListenStep(err)
    /\ setupRet' = "none"
    /\ waitRet' = "none"
    /\ teardownRet' = "none"
    /\ td' = NoTeardown
    /\ UNCHANGED <<serialConn, wpc, evlog, files, tpc, timerFired, teardowns,
                   nilCloses, readyFile>>

\* the session shuts down (the peer goes away, a read fails, the listener
\* is closed): its CloseChan() is closed
sessionShutdown ==
    \E k \in 1..Len(sessions) :
        /\ ~sessions[k].shutdown
        /\ sessions' = [sessions EXCEPT ![k].shutdown = TRUE]
        /\ UNCHANGED <<serialConn, setupRet, wpc, waitRet, evlog, files, waitCh,
                       listenRet, teardownRet, tpc, timerFired, td, teardowns,
                       nilCloses, readyFile>>

\* (*os.File).Close(): the error it returns, sysErr being the result of
\* close(2) when the file is open
FileCloseErr(file, sysErr) ==
    IF file.isNil THEN ErrInvalid
    ELSE IF files[file.id].closed THEN ErrClosed
    ELSE sysErr

\* (*os.File).Close(): the files after it
FileCloseFiles(file) ==
    IF IsOpen(file) THEN [files EXCEPT ![file.id].closed = TRUE] ELSE files

\* a session that has shut down closes the connection it was made over
sessionCloseConn ==
    \E k \in 1..Len(sessions) :
        /\ sessions[k].shutdown
        /\ ~sessions[k].connClosed
        /\ sessions' = [sessions EXCEPT ![k].connClosed = TRUE]
        /\ files' = FileCloseFiles(sessions[k].conn)
        /\ UNCHANGED <<serialConn, setupRet, wpc, waitRet, evlog, waitCh,
                       listenRet, teardownRet, tpc, timerFired, td, teardowns,
                       nilCloses, readyFile>>

CloseErrors == {Nil, "EIO"}

\* whether c.waitCh can be received from: a nil channel never can
Notified == waitCh # NilChan /\ sessions[waitCh].shutdown

\* mutant: the wait entered whether or not a channel is stored
TeardownWaits_Always(ch) == TRUE

\* line 219
TeardownWaits(ch) == ch # NilChan

\* mutant: the timeout case ready at once, like a default case
SelectReady_TimeoutAtOnce(notified, fired) ==
    (IF notified THEN {"recv"} ELSE {}) \cup {"timeout"}

\* lines 221-226: the cases of the select that can be taken; select takes
\* any one of those that are ready
SelectReady(notified, fired) ==
    (IF notified THEN {"recv"} ELSE {}) \cup (IF fired THEN {"timeout"} ELSE {})

\* teardown() returns: branch is how it left the select ("none" when it did
\* not wait); line 228 is reached unless the timeout was taken
TeardownReturn(branch, sysErr) ==
    LET closing == branch # "timeout"
        ret == IF closing THEN FileCloseErr(serialConn, sysErr) ELSE ErrTimeout
        after == IF closing THEN FileCloseFiles(serialConn) ELSE files
    IN /\ files' = IF closing /\ ~serialConn.isNil
                   THEN [after EXCEPT ![serialConn.id].closeCalls = @ + 1]
                   ELSE after
       /\ nilCloses' = IF closing /\ serialConn.isNil
                       THEN nilCloses + 1 ELSE nilCloses
       /\ teardownRet' = ret
       /\ tpc' = "idle"
       /\ timerFired' = FALSE
       /\ td' = [branch |-> branch, notified |-> Notified,
                 fired |-> timerFired, file |-> serialConn.id,
                 openAfter |-> ~serialConn.isNil
                                 /\ ~after[serialConn.id].closed,
                 ret |-> ret]

\* lines 217-220 and, when c.waitCh is nil, line 228
teardownEnter ==
    /\ wpc = "idle"
    /\ tpc = "idle"
    /\ teardowns < MaxTeardowns
    /\ teardowns' = teardowns + 1
    /\ IF TeardownWaits(waitCh)
       THEN /\ tpc' = "select"
            /\ timerFired' = FALSE
            /\ teardownRet' = "none"
            /\ td' = NoTeardown
            /\ UNCHANGED <<files, nilCloses>>
       ELSE \E sysErr \in CloseErrors : TeardownReturn("none", sysErr)
    /\ setupRet' = "none"
    /\ waitRet' = "none"
    /\ listenRet' = "none"
    /\ UNCHANGED <<serialConn, wpc, evlog, waitCh, sessions, readyFile>>

\* channelCloseTimeout has passed since line 220
timerFire ==
    /\ tpc = "select"
    /\ ~timerFired
    /\ timerFired' = TRUE
    /\ UNCHANGED <<serialConn, setupRet, wpc, waitRet, evlog, files, waitCh,
                   sessions, listenRet, teardownRet, tpc, td, teardowns,
                   nilCloses, readyFile>>

\* lines 221-228
teardownSelect ==
    /\ tpc = "select"
    /\ \E branch \in SelectReady(Notified, timerFired), sysErr \in CloseErrors :
          TeardownReturn(branch, sysErr)
    /\ UNCHANGED <<serialConn, setupRet, wpc, waitRet, evlog, waitCh, sessions,
                   listenRet, teardowns, readyFile>>

\* --------------------------------------------------------- vSockChannel
\* the results vsock.Listen(vSockPort) may give
VSockListenResults ==
    { [l |-> "vsock listener", err |-> Nil],
      [l |-> "nil", err |-> "EADDRINUSE"],
      [l |-> "nil", err |-> "EAFNOSUPPORT"] }

\* lines 90-92; c is the receiver
vSockChannel_setup(c) == [c |-> c, l |-> "nil", err |-> Nil]

\* lines 94-96
vSockChannel_wait(c) == [c |-> c, l |-> "nil", err |-> Nil]

\* mutant: a failure of vsock.Listen swallowed
vSockChannel_listen_ErrSwallowed(c, r) ==
    IF r.err # Nil THEN [c |-> c, l |-> "nil", err |-> Nil]
    ELSE [c |-> c, l |-> r.l, err |-> Nil]

\* lines 98-105; r is the result of vsock.Listen
vSockChannel_listen(c, r) ==
    IF r.err # Nil THEN [c |-> c, l |-> "nil", err |-> r.err]
    ELSE [c |-> c, l |-> r.l, err |-> Nil]

\* lines 107-109
vSockChannel_teardown(c) == [c |-> c, l |-> "nil", err |-> Nil]

IdleVSock ==
    /\ vsockObj = vSockChannel
    /\ vlog = <<>>

InitVSock == IdleVSock

\* one method call on the vSockChannel; out is what the method gives
VSockCall(op, out) ==
    /\ Len(vlog) < MaxVSockCalls
    /\ vsockObj' = out.c
    /\ vlog' = Append(vlog, [op |-> op, l |-> out.l, err |-> out.err])

vsockSetup == VSockCall("setup", vSockChannel_setup(vsockObj))
vsockWait == VSockCall("wait", vSockChannel_wait(vsockObj))
vsockListen ==
    \E r \in VSockListenResults :
        VSockCall("listen", vSockChannel_listen(vsockObj, r))
vsockTeardown == VSockCall("teardown", vSockChannel_teardown(vsockObj))

\* --------------------------------------------------------- specifications
Init == InitDiscover /\ IdleResolve /\ IdleSerial /\ IdleVSock
Next ==
    \/ (Stat /\ UNCHANGED <<rvars, svars, vvars>>)
    \/ (Probe /\ UNCHANGED <<rvars, svars, vvars>>)
    \/ (Resolve /\ UNCHANGED <<rvars, svars, vvars>>)
    \/ (Sleep /\ UNCHANGED <<rvars, svars, vvars>>)
    \/ (Exhaust /\ UNCHANGED <<rvars, svars, vvars>>)
    \/ (EnvTick /\ UNCHANGED <<rvars, svars, vvars>>)
Spec == Init /\ [][Next]_vars

InitR == IdleDiscover /\ InitResolve /\ IdleSerial /\ IdleVSock
NextR == ResolveCall /\ UNCHANGED <<dvars, svars, vvars>>
SpecResolve == InitR /\ [][NextR]_vars

\* newChannel runs on one goroutine and every call it makes returns, so a
\* step of it that can be taken is taken
Discover == Stat \/ Probe \/ Resolve \/ Sleep \/ Exhaust
FairSpec == Spec /\ WF_vars(Discover /\ UNCHANGED <<rvars, svars, vvars>>)

InitS == IdleDiscover /\ IdleResolve /\ InitSerial /\ IdleVSock
NextS ==
    \/ (setup /\ UNCHANGED <<dvars, rvars, vvars>>)
    \/ (waitEnter /\ UNCHANGED <<dvars, rvars, vvars>>)
    \/ (waitEpoll /\ UNCHANGED <<dvars, rvars, vvars>>)
SpecSerial == InitS /\ [][NextS]_vars

InitL == IdleDiscover /\ IdleResolve /\ InitSerial /\ IdleVSock
NextL ==
    \/ (setup /\ UNCHANGED <<dvars, rvars, vvars>>)
    \/ (waitCall /\ UNCHANGED <<dvars, rvars, vvars>>)
    \/ (listen /\ UNCHANGED <<dvars, rvars, vvars>>)
    \/ (sessionShutdown /\ UNCHANGED <<dvars, rvars, vvars>>)
    \/ (sessionCloseConn /\ UNCHANGED <<dvars, rvars, vvars>>)
    \/ (teardownEnter /\ UNCHANGED <<dvars, rvars, vvars>>)
    \/ (timerFire /\ UNCHANGED <<dvars, rvars, vvars>>)
    \/ (teardownSelect /\ UNCHANGED <<dvars, rvars, vvars>>)
SpecLife == InitL /\ [][NextL]_vars

InitV == IdleDiscover /\ IdleResolve /\ IdleSerial /\ InitVSock
NextV ==
    \/ (vsockSetup /\ UNCHANGED <<dvars, rvars, svars>>)
    \/ (vsockWait /\ UNCHANGED <<dvars, rvars, svars>>)
    \/ (vsockListen /\ UNCHANGED <<dvars, rvars, svars>>)
    \/ (vsockTeardown /\ UNCHANGED <<dvars, rvars, svars>>)
SpecVSock == InitV /\ [][NextV]_vars

\* ================================================================ claims
Range(f) == {f[x] : x \in DOMAIN f}
\* the call `what` was made in iteration k (0-based, as i)
Called(k, what) == \E n \in 1..Len(calls) : calls[n] = <<k, what>>
NumCalls(what) == Cardinality({n \in 1..Len(calls) : calls[n][2] = what})
\* the vsock device path exists and socket creation and release both succeed
Usable(e) ==
    e.statErr = Nil /\ e.sock.socketErr = Nil /\ e.sock.closeErr = Nil
\* the serial channel resolves in this environment
Resolvable(e) == findVirtualSerialPath(e.topo, serialChannelName).err = Nil
Iterations == 0..(Len(envHist) - 1)

\* C1: in any iteration in which the vsock path exists and the probe reports
\* supported without error, newChannel returns the vsock channel in that
\* iteration and findVirtualSerialPath is not called in it.
C1_SocketReturnedWithoutResolve ==
    \A k \in Iterations :
        (Usable(envHist[k + 1]) /\ Called(k, "Probe"))
            => /\ pc = "done"
               /\ i = k
               /\ chan = vSockChannel
               /\ chanErr = NoError
               /\ ~Called(k, "Resolve")

C1_Witness ==
    /\ pc = "done"
    /\ i >= 1
    /\ Called(i, "Probe")
    /\ Usable(envHist[i + 1])
    /\ Resolvable(envHist[i + 1])
    /\ chan = vSockChannel

\* the vsock path is absent in iterations 1..k-1 and usable in iteration k
LateSocket(k) ==
    /\ k \in 2..Len(envHist)
    /\ Usable(envHist[k])
    /\ \A j \in 1..(k - 1) : envHist[j].statErr # Nil
EarlierSerial(k) == {j \in 1..(k - 1) : Resolvable(envHist[j])}
Min(S) == CHOOSE x \in S : \A y \in S : x <= y

\* C2 (as claimed): when the vsock path appears only after the first
\* iteration and the probe then succeeds, newChannel returns the vsock
\* channel in that iteration, whatever resolved earlier.
C2_LateSocketAlwaysWins ==
    pc = "done" =>
        \A k \in 2..Len(envHist) :
            LateSocket(k) => (chan = vSockChannel /\ i = k - 1)

\* C2 (amended): when the vsock path appears only after the first iteration
\* and the probe then succeeds, newChannel returns the vsock channel in that
\* iteration provided the serial port resolved in no earlier iteration;
\* otherwise it has returned the serial channel in the first iteration in
\* which the serial port resolved.
C2_LateSocketWinsUnlessSerialEarlier ==
    pc = "done" =>
        \A k \in 2..Len(envHist) :
            LateSocket(k) =>
                IF EarlierSerial(k) = {}
                THEN chan = vSockChannel /\ i = k - 1
                ELSE chan.kind = "serial" /\ i = Min(EarlierSerial(k)) - 1

C2_Witness ==
    /\ pc = "done"
    /\ chan = vSockChannel
    /\ LateSocket(i + 1)
    /\ Resolvable(envHist[i + 1])
    /\ i + 1 = channelExistMaxTries

\* no iteration of a full run had a usable vsock or a resolvable serial port
NeverAvailable ==
    /\ Len(envHist) = channelExistMaxTries
    /\ \A k \in 1..Len(envHist) :
          ~Usable(envHist[k]) /\ ~Resolvable(envHist[k])

\* C3: when neither transport is available in any of the
\* channelExistMaxTries iterations, newChannel has slept at least
\* channelExistMaxTries - 1 times channelExistWaitTime when it returns, and it
\* returns no channel and the not-found error.
C3_ExhaustionSleepsAndFails ==
    (pc = "done" /\ NeverAvailable) =>
        /\ NumCalls("Sleep") >= channelExistMaxTries - 1
        /\ elapsed >= (channelExistMaxTries - 1) * channelExistWaitTime
        /\ chan = NoChannel
        /\ chanErr.msg = ErrNeither

C3_Witness ==
    /\ pc = "done"
    /\ NeverAvailable
    /\ channelExistMaxTries >= 3
    /\ \E k \in 1..Len(envHist) : envHist[k].statErr = Nil
    /\ chan = NoChannel

Exhausted == pc = "done" /\ chan = NoChannel

LastSerialErr ==
    IF envHist = <<>> THEN Nil
    ELSE findVirtualSerialPath(envHist[Len(envHist)].topo, serialChannelName).err
\* the error of the probe in the last iteration that saw the vsock path
LastProbeErr ==
    LET K == {k \in 1..Len(envHist) : envHist[k].statErr = Nil}
    IN IF K = {} THEN Nil
       ELSE isAFVSockSupported(
                envHist[CHOOSE k \in K : \A j \in K : j <= k].sock).err
Logged(msg) == {x.err : x \in {y \in Range(agentLog) : y.msg = msg}}

C5_UnusableSocketFallsThrough ==
    \A k \in Iterations :
        /\ (envHist[k + 1].statErr = Nil /\ ~Usable(envHist[k + 1])
                /\ Called(k, "Probe"))
             => /\ \/ (pc = "resolve" /\ i = k /\ chan = NoChannel
                          /\ chanErr = NoError)
                   \/ Called(k, "Resolve")
                /\ (pc = "done" /\ i = k) => chan.kind = "serial"
        /\ envHist[k + 1].statErr # Nil => ~Called(k, "Probe")

C5_Witness ==
    /\ pc = "done"
    /\ i >= 1
    /\ env.statErr = Nil
    /\ env.sock = [socketErr |-> Nil, closeErr |-> "EIO"]
    /\ Called(i, "Probe")
    /\ Called(i, "Resolve")
    /\ chan.kind = "serial"

\* sub occurs in s as a contiguous run of characters
IsSubstring(sub, s) ==
    \E a \in 0..(Len(s) - Len(sub)) : [j \in 1..Len(sub) |-> s[a + j]] = sub
RootListed == topo.openErr = Nil /\ topo.listErr = Nil
Positions == 1..Len(topo.ports)
\* children whose name file exists and contains serialName
Matching ==
    {k \in Positions : topo.ports[k].err = Nil
                          /\ IsSubstring(serialName, topo.ports[k].content)}
\* children whose name file fails to read for a reason other than absence
Failing == {k \in Positions : topo.ports[k].err \notin {Nil, "ENOENT"}}
Returned == res # Pending

\* C6: when the root lists and no name file fails to read for a reason other
\* than absence, the result is /dev joined with the first child, in
\* enumeration order, whose name file exists and contains serialName;
\* children without a name file are passed over.
C6_FirstMatchingChild ==
    (Returned /\ RootListed /\ Failing = {} /\ Matching # {}) =>
        /\ res.err = Nil
        /\ res.path = <<devRootPath, topo.ports[Min(Matching)].id>>

C6_Witness ==
    /\ Returned
    /\ RootListed
    /\ Failing = {}
    /\ Cardinality(Matching) >= 2
    /\ Min(Matching) >= 2
    /\ topo.ports[1].err = "ENOENT"
    /\ topo.ports[Min(Matching)].content # serialName
    /\ topo.ports[Min(Matching)].id > topo.ports[Min(Matching) + 1].id
    /\ res.err = Nil

\* C7: the first name file whose read fails for a reason other than absence,
\* when no earlier child matched, makes the resolver return that error and
\* no path, and no later child is read, whether or not one would match.
C7_ReadFailureIsFatal ==
    (Returned /\ RootListed /\ Failing # {}
        /\ \A m \in Matching : m > Min(Failing)) =>
        /\ res.err = topo.ports[Min(Failing)].err
        /\ res.path = NoPath
        /\ res.reads = [k \in 1..Min(Failing) |-> topo.ports[k].id]

C7_Witness ==
    /\ Returned
    /\ RootListed
    /\ Failing # {}
    /\ Min(Failing) = 2
    /\ \E m \in Matching : m > Min(Failing)
    /\ res.err = "EACCES"
    /\ Len(res.reads) = 2

\* C8 (as claimed): an unopenable or unlistable root fails with the root's
\* error; a listed root none of whose children's name content contains
\* serialName fails with NotFound and no path.
C8_NoMatchIsNotFound ==
    Returned =>
        /\ topo.openErr # Nil => (res.err = topo.openErr /\ res.path = NoPath)
        /\ (topo.openErr = Nil /\ topo.listErr # Nil)
               => (res.err = topo.listErr /\ res.path = NoPath)
        /\ (RootListed /\ Matching = {})
               => (res.err = ErrNotFound /\ res.path = NoPath)

\* C8 (amended): as claimed, for a listed root with no matching child none
\* of whose name files fails to read for a reason other than absence.
C8_NoMatchNoFailureIsNotFound ==
    Returned =>
        /\ topo.openErr # Nil => (res.err = topo.openErr /\ res.path = NoPath)
        /\ (topo.openErr = Nil /\ topo.listErr # Nil)
               => (res.err = topo.listErr /\ res.path = NoPath)
        /\ (RootListed /\ Matching = {} /\ Failing = {})
               => (res.err = ErrNotFound /\ res.path = NoPath)

C8_Witness ==
    /\ Returned
    /\ RootListed
    /\ Len(topo.ports) >= 2
    /\ \E k \in Positions : topo.ports[k].err = "ENOENT"
    /\ \E k \in Positions : topo.ports[k].err = Nil
    /\ Matching = {}
    /\ res.err = ErrNotFound

\* one EpollWait result wait() received
OnOwnFd(r) == r.err = Nil /\ r.events # <<>> /\ r.events[1].fd = r.reg
HangupOnly(r) == OnOwnFd(r) /\ r.events[1].events = {"EPOLLHUP"}
OtherDescriptor(r) ==
    r.err = Nil /\ r.events # <<>> /\ r.events[1].fd # r.reg
WriteReady(r) == OnOwnFd(r) /\ "EPOLLOUT" \in r.events[1].events
ErrorCondition(r) == OnOwnFd(r) /\ "EPOLLERR" \in r.events[1].events
Noise(r) == HangupOnly(r) \/ OtherDescriptor(r)
\* wait() reached its loop
InLoop == wpc = "epollwait" \/ evlog # <<>>

\* C9: after any number of hangup-only events (or events of other
\* descriptors), wait() returns nil at the first write-ready event of its
\* descriptor; while nothing else than such noise has been delivered it has
\* not returned.
C9_HangupIsNotTerminal ==
    InLoop =>
        /\ (\A n \in 1..Len(evlog) : Noise(evlog[n]))
               => (wpc = "epollwait" /\ waitRet = "none")
        /\ (evlog # <<>> /\ WriteReady(evlog[Len(evlog)])
              /\ \A n \in 1..(Len(evlog) - 1) : Noise(evlog[n]))
               => (wpc = "idle" /\ waitRet = Nil)

C9_Witness ==
    /\ Len(evlog) >= 3
    /\ \A n \in 1..(Len(evlog) - 1) : HangupOnly(evlog[n])
    /\ evlog[Len(evlog)].events[1].events = {"EPOLLOUT"}
    /\ OnOwnFd(evlog[Len(evlog)])
    /\ wpc = "idle"
    /\ waitRet = Nil

\* C10 (as claimed): an event of wait()'s descriptor that carries the error
\* condition, whatever else it carries, makes wait() return the IO failure.
C10_ErrorEventAlwaysFails ==
    \A n \in 1..Len(evlog) :
        ErrorCondition(evlog[n]) => (wpc = "idle" /\ waitRet = ErrIOFailure)

\* the last iteration in which the probe was called
Probed == {k \in Iterations : Called(k, "Probe")}
LastProbed == CHOOSE k \in Probed : \A j \in Probed : j <= k

\* C14: the probe yields (false, nil) when socket creation fails with
\* EAFNOSUPPORT, (false, err) when it fails otherwise, (true, nil) when
\* creation and release succeed and (true, err) when release fails; an
\* unsupported address family is never an error.
C14_ProbeOutcomes ==
    Probed # {} =>
        LET s == envHist[LastProbed + 1].sock
        IN /\ s.socketErr = "EAFNOSUPPORT"
                => (vSockSupported = FALSE /\ vsockErr = Nil)
           /\ s.socketErr \notin {Nil, "EAFNOSUPPORT"}
                => (vSockSupported = FALSE /\ vsockErr = s.socketErr)
           /\ (s.socketErr = Nil /\ s.closeErr = Nil)
                => (vSockSupported = TRUE /\ vsockErr = Nil)
           /\ (s.socketErr = Nil /\ s.closeErr # Nil)
                => (vSockSupported = TRUE /\ vsockErr = s.closeErr)
           /\ <<vSockSupported, vsockErr>> \in
                  {<<FALSE, Nil>>, <<TRUE, Nil>>}
                      \cup {<<FALSE, s.socketErr>>, <<TRUE, s.closeErr>>}

C14_Witness ==
    /\ Probed # {}
    /\ envHist[LastProbed + 1].sock.socketErr = "EAFNOSUPPORT"
    /\ vSockSupported = FALSE
    /\ vsockErr = Nil
    /\ pc = "resolve"

\* newChannel makes at most channelExistMaxTries iterations and returns
\* either a channel and no error or no channel and an error; with
\* channelExistMaxTries = 0 it returns the not-found error without calling
\* the probe or the resolver
BoundedAndOneResult ==
    /\ i <= channelExistMaxTries
    /\ NumCalls("Stat") <= channelExistMaxTries
    /\ Len(calls) <= 4 * channelExistMaxTries
    /\ pc # "done" => (chan = NoChannel /\ chanErr = NoError)
    /\ pc = "done" =>
          \/ (chan # NoChannel /\ chanErr = NoError)
          \/ (chan = NoChannel /\ chanErr # NoError)
    /\ (pc = "done" /\ channelExistMaxTries = 0) =>
          (chan = NoChannel /\ chanErr.msg = ErrNeither /\ calls = <<>>)

\* C18: whatever the environment does, newChannel returns after at most
\* channelExistMaxTries iterations, with either a channel and no error or no
\* channel and an error; with channelExistMaxTries = 0 it returns the
\* not-found error without calling the probe or the resolver.
C18_TerminatesWithOneResult == []BoundedAndOneResult /\ <>(pc = "done")

C18_Witness ==
    /\ pc = "done"
    /\ channelExistMaxTries >= 2
    /\ NumCalls("Stat") = channelExistMaxTries
    /\ chan.kind = "serial"

\* C19: on exhaustion vsockErr is the error of the probe of the last
\* iteration in which the probe was called (nil when that probe reported no
\* error, whatever earlier probes reported), and serialErr is the resolver's
\* error of the final iteration.
C19_HeldErrors ==
    Exhausted =>
        /\ vsockErr = LastProbeErr
        /\ serialErr = LastSerialErr
        /\ Probed = {} => vsockErr = Nil

C19_Witness ==
    /\ Exhausted
    /\ channelExistMaxTries >= 3
    /\ Probed = {0}
    /\ vsockErr = "EMFILE"
    /\ serialErr = "ENOENT"

\* C20: a failed iteration is followed by one sleep, the last one too: on
\* exhaustion newChannel has slept channelExistMaxTries times, on success in
\* iteration i (0-based) i times.
C20_SleepCount ==
    /\ pc = "done" =>
          LET n == IF chan = NoChannel THEN channelExistMaxTries ELSE i
          IN /\ NumCalls("Sleep") = n
             /\ elapsed = n * channelExistWaitTime
    /\ \A k \in Iterations :
          Called(k, "Sleep") <=> k < i

C20_Witness ==
    /\ Exhausted
    /\ channelExistMaxTries >= 2
    /\ Called(channelExistMaxTries - 1, "Sleep")
    /\ elapsed = channelExistMaxTries * channelExistWaitTime

\* C15: on a vSockChannel setup, wait and teardown return nil whenever and
\* however often they are called and leave the channel as it was; listen
\* alone yields a listener, and when it fails it returns the error and no
\* listener.
C15_VSockNoOps ==
    /\ vsockObj = vSockChannel
    /\ \A n \in 1..Len(vlog) :
          /\ vlog[n].op \in {"setup", "wait", "teardown"}
                => (vlog[n].err = Nil /\ vlog[n].l = "nil")
          /\ vlog[n].op = "listen"
                => (vlog[n].err = Nil <=> vlog[n].l # "nil")

C15_Witness ==
    /\ Len(vlog) >= 3
    /\ vlog[1].op = "teardown"
    /\ vlog[2].op = "listen" /\ vlog[2].err = "EADDRINUSE" /\ vlog[2].l = "nil"
    /\ vlog[3].op = "listen" /\ vlog[3].err = Nil

\* ---------------------------------------------- claims about teardown
\* what c.serialConn.Close() can return
CloseResults == CloseErrors \cup {ErrInvalid, ErrClosed}
\* the last teardown() waited with both cases of its select ready
Tie == td.notified /\ td.fired
\* the last teardown() left a file setup() had opened still open
LeftOpen == td.file # 0 /\ td.openAfter

\* C11: when teardown() waits and the close notification does not fire, it
\* returns the timeout error once the timer has expired, and the file in
\* c.serialConn is closed when it has returned. (The code returns at line
\* 225 without reaching the Close() of line 228.)
C11_TimeoutClosesDescriptor ==
    (td.branch = "timeout" /\ ~td.notified)
        => (td.fired /\ td.ret = ErrTimeout /\ ~LeftOpen)

\* C12 as stated: whenever the notification and the timer are both ready at
\* the select, teardown() takes the timer's case and returns the timeout
\* error.
C12_DeadlineWinsTies ==
    Tie => (td.branch = "timeout" /\ td.ret = ErrTimeout)

\* C12 amended: teardown() leaves the select by a case that is ready, the
\* timer's case only when the timer has expired (returning the timeout
\* error) and the notification's case only when the notification has fired
\* (returning what Close() returns); in a tie it may take either.
C12_SelectTakesAReadyCase ==
    /\ td.branch = "timeout" => (td.fired /\ td.ret = ErrTimeout)
    /\ td.branch = "recv" => (td.notified /\ td.ret \in CloseResults)
    /\ Tie => td.branch \in {"recv", "timeout"}

C12_Witness == Tie /\ td.branch = "recv" /\ td.ret = Nil

\* C13: over all the calls made on one serialChannel, teardown() calls
\* Close() at most once on any file, and never on a file setup() has not
\* opened.
C13_CloseAttemptedOnce ==
    /\ nilCloses = 0
    /\ \A f \in 1..Len(files) : files[f].closeCalls <= 1

\* C16: teardown() waits only when listen() has stored a channel in
\* c.waitCh, which it does exactly when it has created a session; with no
\* session teardown() goes straight to Close() and returns its result; and
\* when the notification has fired and the timer has not, teardown() takes
\* the notification's case, closes the file and returns what Close()
\* returns, never the timeout error.
C16_WaitsOnlyOnStoredHandle ==
    /\ waitCh # NilChan <=> Len(sessions) > 0
    /\ tpc = "select" => waitCh # NilChan
    /\ (td.branch # "never" /\ Len(sessions) = 0) => td.branch = "none"
    /\ td.branch = "none"
          => (Len(sessions) = 0 /\ td.ret \in CloseResults /\ ~LeftOpen)
    /\ (td.notified /\ ~td.fired)
          => (td.branch = "recv" /\ td.ret \in CloseResults /\ ~LeftOpen)

C16_Witness ==
    /\ td.notified /\ ~td.fired
    /\ td.branch = "recv"
    /\ td.file # 0
    /\ td.ret = Nil

\* C17: listen() creates a session, and returns it as the listener, only
\* over a file that setup() opened and on which wait() has since returned
\* nil.
C17_SessionOnlyWhenReady ==
    \A k \in 1..Len(sessions) : sessions[k].ready

====
